---- MODULE Spec2Model ----
(***************************************************************************)
(* Model of python-cbeta: the missing-character table                      *)
(* (lib/cbeta_missing/cbeta_missing_character.py) and the namespace        *)
(* pre-pass (lib/utils/remove_namespace.py).                               *)
(*                                                                         *)
(* Python strings that the code slices or prefix-tests are sequences of    *)
(* symbols.  A tag or attribute name is a sequence of chunks: "{", "}",    *)
(* a namespace URI, a local name (no chunk is a prefix of another, so      *)
(* chunk-wise startswith/slicing agrees with character-wise); the text of  *)
(* a mapping node is a sequence of single characters.  Strings that are    *)
(* only compared or used as dictionary keys are TLA+ strings.  A Python    *)
(* dict is a function; a character is [codepoint |-> n].                   *)
(***************************************************************************)
EXTENDS Integers, Sequences, FiniteSets, TLC

\* missing_dict, zzs_code: the fields of the CbetaMissingCharacter instance
\* call, outcome, log: the last call made, how it ended, its LOGGER calls
\* prev: the call before the last one and the table the last call started from
VARIABLES missing_dict, zzs_code, call, outcome, log, prev

vars == <<missing_dict, zzs_code, call, outcome, log, prev>>

(* ------------------------------ bounds -------------------------------- *)
\* most charProp children of one char node
MaxProps == 2
\* most mapping children of one char node
MaxMappings == 2
\* most digits in the payload of a mapping text
MaxHexLen == 2
\* most children of the root of a document given to remove_namespace
MaxChildren == 1

(* --------------------------- Python values ---------------------------- *)
EmptyDict == <<>>

Put(d, k, v) == [x \in (DOMAIN d) \cup {k} |-> IF x = k THEN v ELSE d[x]]

Pop(d, k) == [x \in (DOMAIN d) \ {k} |-> d[x]]

StartsWith(s, prefix) ==
    /\ Len(s) >= Len(prefix)
    /\ SubSeq(s, 1, Len(prefix)) = prefix

\* s[n:]
SliceFrom(s, n) == SubSeq(s, n + 1, Len(s))

\* s[2:-1]
Slice2ToLast(s) == SubSeq(s, 3, Len(s) - 1)

NotCalled == [kind |-> "none"]
Return(v) == [kind |-> "return", value |-> v]
ReturnNone == [kind |-> "return_none"]
Raise(e) == [kind |-> "raise", exc |-> e]

DecDigits == {"0", "1", "2", "3", "4", "5", "6", "7", "8", "9"}

DecDigitValue(c) ==
    CASE c = "0" -> 0 [] c = "1" -> 1 [] c = "2" -> 2 [] c = "3" -> 3
      [] c = "4" -> 4 [] c = "5" -> 5 [] c = "6" -> 6 [] c = "7" -> 7
      [] c = "8" -> 8 [] c = "9" -> 9

RECURSIVE DecValue(_)
DecValue(s) ==
    IF s = <<>> THEN 0
    ELSE 10 * DecValue(SubSeq(s, 1, Len(s) - 1)) + DecDigitValue(s[Len(s)])

\* int(s): base 10; ValueError on the empty string or a non-decimal symbol
PyInt(s) ==
    IF s # <<>> /\ \A i \in 1..Len(s) : s[i] \in DecDigits
    THEN Return(DecValue(s))
    ELSE Raise("ValueError")

MaxCodePoint == 1114111

\* chr(n)
PyChr(n) ==
    IF n >= 0 /\ n <= MaxCodePoint
    THEN Return([codepoint |-> n])
    ELSE Raise("ValueError")

(* ------------------------------ elements ------------------------------ *)
Element(tag, attrib, text, children) ==
    [tag |-> tag, attrib |-> attrib, text |-> text, children |-> children]

NoText == <<>>

\* element.findall('./name')
FindAll(element, name) ==
    SelectSeq(element.children, LAMBDA c : c.tag = <<name>>)

\* element.find('./name')
Find(element, name) == FindAll(element, name)[1]

(* ------------------------- CbetaMissingCharacter ---------------------- *)
\* FIELD_MAPPING with the entry of 'composition' left unrenamed
FIELD_MAPPING_Unrenamed ==
    [x \in {"big5", "Character in the Siddham font", "composition",
            "normalized form", "rjchar",
            "Romanized form in CBETA transcription",
            "Romanized form in Unicode transcription"} |->
        CASE x = "big5" -> "big5"
          [] x = "Character in the Siddham font" -> "char_in_siddham_font"
          [] x = "composition" -> "composition"
          [] x = "normalized form" -> "normal"
          [] x = "rjchar" -> "rjchar"
          [] x = "Romanized form in CBETA transcription" -> "roman_cbeta"
          [] x = "Romanized form in Unicode transcription" -> "roman"]

FIELD_MAPPING ==
    [x \in {"big5", "Character in the Siddham font", "composition",
            "normalized form", "rjchar",
            "Romanized form in CBETA transcription",
            "Romanized form in Unicode transcription"} |->
        CASE x = "big5" -> "big5"
          [] x = "Character in the Siddham font" -> "char_in_siddham_font"
          [] x = "composition" -> "zzs"
          [] x = "normalized form" -> "normal"
          [] x = "rjchar" -> "rjchar"
          [] x = "Romanized form in CBETA transcription" -> "roman_cbeta"
          [] x = "Romanized form in Unicode transcription" -> "roman"]

type_to_store == {"normal_unicode", "unicode"}

\* the charProp loop of extract_char: [res, log]
RECURSIVE CharPropLoop(_, _, _, _, _)
CharPropLoop(props, i, res, lg, char_id) ==
    IF i > Len(props) THEN [res |-> res, log |-> lg]
    ELSE
        LET element == props[i]
            local_name == Find(element, "localName").text
            value == Find(element, "value").text
        IN  IF local_name \in DOMAIN FIELD_MAPPING
            THEN CharPropLoop(props, i + 1,
                              Put(res, FIELD_MAPPING[local_name], value),
                              lg, char_id)
            ELSE CharPropLoop(props, i + 1, res,
                              Append(lg, [level |-> "info",
                                          what |-> "Not handling charProp",
                                          char_id |-> char_id,
                                          key |-> local_name,
                                          value |-> value]),
                              char_id)

\* the mapping loop of extract_char: Return(res), or the exception of int/chr
RECURSIVE MappingLoop(_, _, _)
MappingLoop(mappings, i, res) ==
    IF i > Len(mappings) THEN Return(res)
    ELSE
        LET element == mappings[i]
            mapping_type == element.attrib[<<"type">>]
        IN  IF mapping_type \in type_to_store
            THEN LET unicode == Slice2ToLast(element.text)
                     res1 == Put(res, mapping_type, unicode)
                 IN  IF mapping_type = "unicode"
                     THEN LET n == PyInt(unicode)
                          IN  IF n.kind = "raise" THEN n
                              ELSE LET c == PyChr(n.value)
                                   IN  IF c.kind = "raise" THEN c
                                       ELSE MappingLoop(mappings, i + 1,
                                              Put(res1, "unicode-char", c.value))
                     ELSE MappingLoop(mappings, i + 1, res1)
            ELSE MappingLoop(mappings, i + 1, res)

\* extract_char(char): [out |-> Return(res) or Raise(exc), log |-> LOGGER calls]
extract_char(char) ==
    IF <<"id">> \notin DOMAIN char.attrib
    THEN [out |-> Raise("KeyError"), log |-> <<>>]
    ELSE
        LET char_id == char.attrib[<<"id">>]
            p == CharPropLoop(FindAll(char, "charProp"), 1, EmptyDict, <<>>, char_id)
        IN  [out |-> MappingLoop(FindAll(char, "mapping"), 1, p.res),
             log |-> p.log]

(* --------------------------- remove_namespace ------------------------- *)
\* the URI of the reserved xml namespace, one chunk
XML_NAMESPACE == "http://www.w3.org/XML/1998/namespace"

default_namespace == <<"{", XML_NAMESPACE, "}">>

\* RenameAttributes that reads the attribute instead of popping it
RECURSIVE RenameAttributes_NoPop(_, _)
RenameAttributes_NoPop(attrib, todo) ==
    IF todo = {} THEN attrib
    ELSE
        LET attribute == CHOOSE a \in todo : TRUE
        IN  IF StartsWith(attribute, default_namespace)
            THEN RenameAttributes_NoPop(
                     Put(attrib,
                         SliceFrom(attribute, Len(default_namespace)),
                         attrib[attribute]),
                     todo \ {attribute})
            ELSE RenameAttributes_NoPop(attrib, todo \ {attribute})

\* the "for attribute in element.attrib" loop over the attributes still to visit
RECURSIVE RenameAttributes(_, _)
RenameAttributes(attrib, todo) ==
    IF todo = {} THEN attrib
    ELSE
        LET attribute == CHOOSE a \in todo : TRUE
        IN  IF StartsWith(attribute, default_namespace)
            THEN RenameAttributes(
                     Put(Pop(attrib, attribute),
                         SliceFrom(attribute, Len(default_namespace)),
                         attrib[attribute]),
                     todo \ {attribute})
            ELSE RenameAttributes(attrib, todo \ {attribute})

\* the body of the loop for one element and, as doc.getiterator() visits the
\* whole tree, for its descendants
RECURSIVE RemoveNamespaceElement(_, _)
RemoveNamespaceElement(element, new_namespace) ==
    [tag |-> IF StartsWith(element.tag, new_namespace)
             THEN SliceFrom(element.tag, Len(new_namespace))
             ELSE element.tag,
     attrib |-> RenameAttributes(element.attrib, DOMAIN element.attrib),
     text |-> element.text,
     children |-> [i \in 1..Len(element.children) |->
                     RemoveNamespaceElement(element.children[i], new_namespace)]]

\* remove_namespace(doc, namespace): the document as the call leaves it
remove_namespace(doc, namespace) ==
    LET new_namespace == <<"{">> \o namespace \o <<"}">>
    IN  [nsmap |-> doc.nsmap,
         root |-> RemoveNamespaceElement(doc.root, new_namespace)]

(* ------------------------------ documents ----------------------------- *)
TEI_NAMESPACE == "http://www.tei-c.org/ns/1.0"

\* the tag lxml gives a name in namespace ns ("" for no namespace)
QName(ns, name) == IF ns = "" THEN <<name>> ELSE <<"{", ns, "}", name>>

Leaf(ns, name, text) == Element(QName(ns, name), EmptyDict, text, <<>>)

\* <charProp><localName>p[1]</localName><value>p[2]</value></charProp>
CharPropNode(ns, p) ==
    Element(QName(ns, "charProp"), EmptyDict, NoText,
            <<Leaf(ns, "localName", p[1]), Leaf(ns, "value", p[2])>>)

\* <mapping type="m[1]">m[2]</mapping>
MappingNode(ns, m) ==
    Element(QName(ns, "mapping"), [a \in {<<"type">>} |-> m[1]], m[2], <<>>)

\* <char xml:id="c.id"> with the charProp and mapping children of c; the
\* attribute is named idname
CharNode(ns, idname, c) ==
    Element(QName(ns, "char"), [a \in {idname} |-> c.id], NoText,
            [i \in 1..Len(c.props) |-> CharPropNode(ns, c.props[i])]
            \o [i \in 1..Len(c.mappings) |-> MappingNode(ns, c.mappings[i])])

XmlId == <<"{", XML_NAMESPACE, "}", "id">>

\* a parsed P5 file: TEI / teiHeader / charDecl / char*, and TEI / text
P5Document(ns, chars) ==
    [nsmap |-> IF ns = "" THEN EmptyDict ELSE [k \in {"None"} |-> <<ns>>],
     root |->
        Element(QName(ns, "TEI"), EmptyDict, NoText,
            <<Element(QName(ns, "teiHeader"), EmptyDict, NoText,
                <<Element(QName(ns, "charDecl"), EmptyDict, NoText,
                    [i \in 1..Len(chars) |-> CharNode(ns, XmlId, chars[i])])>>),
              Leaf(ns, "text", NoText)>>)]

\* every element below element, in document order
RECURSIVE Descendants(_)
RECURSIVE DescendantsOfList(_, _)
Descendants(element) == DescendantsOfList(element.children, 1)

DescendantsOfList(children, i) ==
    IF i > Len(children) THEN <<>>
    ELSE <<children[i]>> \o Descendants(children[i])
         \o DescendantsOfList(children, i + 1)

RECURSIVE Concat(_, _)
Concat(lists, i) ==
    IF i > Len(lists) THEN <<>> ELSE lists[i] \o Concat(lists, i + 1)

\* the ElementPath //charDecl/char from the root of doc
FindCharDeclChar(doc) ==
    LET decls == SelectSeq(Descendants(doc.root), LAMBDA e : e.tag = <<"charDecl">>)
    IN  Concat([i \in 1..Len(decls) |-> FindAll(decls[i], "char")], 1)

(* ----------------------------- file system ---------------------------- *)
\* the text of a mapping node around payload h: 2-symbol prefix, 1-symbol suffix
Wrap(h) == <<"&", "#">> \o h \o <<";">>

\* a path is the sequence of its components
FileNames ==
    {<<"p5", "T01.xml">>, <<"p5", "T02.xml">>, <<"p5", "T03.xml">>,
     <<"p5", "T04.xml">>, <<"p5", "sub", "T05.xml">>,
     <<"p5", "absent.xml">>, <<"p5", "broken.xml">>}

\* etree.parse(filename) on the files of the model's disk: the parsed document,
\* IOError for a file that cannot be opened, XMLSyntaxError (no IOError) for a
\* file that is not well-formed
etree_parse(filename) ==
    CASE filename = <<"p5", "T01.xml">> ->
            Return(P5Document(TEI_NAMESPACE,
                <<[id |-> "CB00006",
                   props |-> << <<"normalized form", "qu">> >>,
                   mappings |-> << <<"unicode", Wrap(<<"2", "4", "9", "B", "2">>)>> >>]>>))
      [] filename = <<"p5", "T02.xml">> ->
            Return(P5Document(TEI_NAMESPACE,
                <<[id |-> "CB00006",
                   props |-> << <<"composition", "z9">> >>,
                   mappings |-> << <<"normal_unicode", Wrap(<<"7", "4", "A", "9">>)>> >>]>>))
      [] filename = <<"p5", "T03.xml">> ->
            Return(P5Document("",
                <<[id |-> "CB00006",
                   props |-> << <<"unknown property", "u1">>,
                                <<"normalized form", "qu">> >>,
                   mappings |-> << <<"big5", Wrap(<<"F", "A">>)>>,
                                   <<"unicode", Wrap(<<"2", "4", "9">>)>> >>],
                  [id |-> "CB00023",
                   props |-> << <<"composition", "z1">> >>,
                   mappings |-> <<>>]>>))
      [] filename = <<"p5", "T04.xml">> ->
            Return(P5Document(TEI_NAMESPACE, <<>>))
      [] filename = <<"p5", "sub", "T05.xml">> ->
            Return(P5Document(TEI_NAMESPACE,
                <<[id |-> "CB00023",
                   props |-> << <<"composition", "z2">> >>,
                   mappings |-> <<>>]>>))
      [] filename = <<"p5", "broken.xml">> -> Raise("XMLSyntaxError")
      [] OTHER -> Raise("IOError")

Folders == {<<"p5">>, <<"p5", "sub">>, <<"empty">>, <<"nowhere">>}

WalkTuple(dirpath, dirnames, filenames) ==
    [pytype |-> "tuple", dirpath |-> dirpath, dirnames |-> dirnames,
     filenames |-> filenames]

\* list(os.walk(folder)): one (dirpath, dirnames, filenames) tuple per
\* directory; nothing when folder is no directory
os_walk(folder) ==
    CASE folder = <<"p5">> ->
            <<WalkTuple(<<"p5">>, <<"sub">>,
                        <<"T01.xml", "T04.xml", ".hidden">>),
              WalkTuple(<<"p5", "sub">>, <<>>, <<"T05.xml">>)>>
      [] folder = <<"p5", "sub">> ->
            <<WalkTuple(<<"p5", "sub">>, <<>>, <<"T05.xml">>)>>
      [] folder = <<"empty">> -> <<WalkTuple(<<"empty">>, <<>>, <<>>)>>
      [] OTHER -> <<>>

\* os.path.join(folder, file): TypeError unless file is a str
os_path_join(folder, file) ==
    IF file.pytype = "str" THEN Return(Append(folder, file.value))
    ELSE Raise("TypeError")

\* path.startswith('.')
StartsWithDot(path) == path # <<>> /\ path[1] \in {".", "..", ".hidden"}

\* os.path.isdir(path)
os_path_isdir(path) == path \in Folders \ {<<"nowhere">>}

(* ------------------------------ the table ----------------------------- *)
Ids == {"CB00006", "CB00023"}

\* the records of the persisted JSON table
PersistedRecords ==
    {[k \in F |-> CASE k = "zzs" -> z
                    [] k = "zhuyin" -> <<"zh1", "zh2">>] :
        F \in SUBSET {"zzs", "zhuyin"}, z \in {"z1", "z2"}}

Tables == UNION {[S -> PersistedRecords] : S \in SUBSET Ids}

\* the orders in which a dict with key set S can list its keys
KeyOrders(S) ==
    {o \in [1..Cardinality(S) -> S] : \A i, j \in DOMAIN o : i # j => o[i] # o[j]}

\* create_zzs_code_lookup with key and value of the index entry swapped
RECURSIVE create_zzs_code_lookup_Swapped(_, _, _, _)
create_zzs_code_lookup_Swapped(table, keys, i, index) ==
    IF i > Len(keys) THEN index
    ELSE
        LET key == keys[i]
            value == table[key]
        IN  IF "zzs" \in DOMAIN value
            THEN create_zzs_code_lookup_Swapped(table, keys, i + 1,
                                                Put(index, key, value["zzs"]))
            ELSE create_zzs_code_lookup_Swapped(table, keys, i + 1, index)

\* create_zzs_code_lookup: the loop over missing_dict.items(), from the i-th key
RECURSIVE create_zzs_code_lookup(_, _, _, _)
create_zzs_code_lookup(table, keys, i, index) ==
    IF i > Len(keys) THEN index
    ELSE
        LET key == keys[i]
            value == table[key]
        IN  IF "zzs" \in DOMAIN value
            THEN create_zzs_code_lookup(table, keys, i + 1,
                                        Put(index, value["zzs"], key))
            ELSE create_zzs_code_lookup(table, keys, i + 1, index)

\* get(cb_code)
get(table, cb_code) ==
    IF cb_code \in DOMAIN table THEN Return(table[cb_code]) ELSE ReturnNone

\* get_phonetic_notation(cb_code)
get_phonetic_notation(table, cb_code) ==
    IF cb_code \in DOMAIN table /\ "zhuyin" \in DOMAIN table[cb_code]
    THEN Return(table[cb_code]["zhuyin"])
    ELSE ReturnNone

(* ------------------------- update_from_p5_file ------------------------ *)
\* what an lxml _ElementTree has
ElementTreeAttributes ==
    {"docinfo", "find", "findall", "findtext", "getelementpath", "getiterator",
     "getpath", "getroot", "iter", "iterfind", "parser", "relaxng",
     "write", "write_c14n", "xinclude", "xmlschema", "xpath", "xslt"}

Step(table, out, lg) == [table |-> table, out |-> out, log |-> lg]

\* the loop "for element in ...: missing_dict[id] = extract_char(element)"
RECURSIVE CharLoop(_, _, _, _)
CharLoop(elements, i, table, lg) ==
    IF i > Len(elements) THEN Step(table, ReturnNone, lg)
    ELSE
        LET element == elements[i]
            r == extract_char(element)
        IN  IF r.out.kind = "raise" THEN Step(table, r.out, lg \o r.log)
            ELSE CharLoop(elements, i + 1,
                          Put(table, element.attrib[<<"id">>], r.out.value),
                          lg \o r.log)

\* update_from_p5_file whose except clause logs and does not raise again
update_from_p5_file_Swallow(table, filename) ==
    LET log0 == <<[level |-> "info", what |-> "Read Cbeta P5 file",
                   filename |-> filename]>>
        parsed == etree_parse(filename)
    IN  IF parsed.kind = "raise"
        THEN IF parsed.exc = "IOError"
             THEN Step(table, ReturnNone,
                       Append(log0, [level |-> "error", what |-> "open file error",
                                     filename |-> filename]))
             ELSE Step(table, parsed, log0)
        ELSE
            LET doc == parsed.value
                namespace == IF "None" \notin DOMAIN doc.nsmap THEN <<>>
                             ELSE <<"{">> \o doc.nsmap["None"] \o <<"}">>
                doc1 == remove_namespace(doc, namespace)
            IN  IF "finall" \notin ElementTreeAttributes
                THEN Step(table, Raise("AttributeError"), log0)
                ELSE CharLoop(FindCharDeclChar(doc1), 1, table, log0)

\* update_from_p5_file that drops an entry of the table (a popitem) when the
\* scan of a parsed document fails
update_from_p5_file_PopItem(table, filename) ==
    LET log0 == <<[level |-> "info", what |-> "Read Cbeta P5 file",
                   filename |-> filename]>>
        parsed == etree_parse(filename)
    IN  IF parsed.kind = "raise"
        THEN IF parsed.exc = "IOError"
             THEN Step(table, parsed,
                       Append(log0, [level |-> "error", what |-> "open file error",
                                     filename |-> filename]))
             ELSE Step(table, parsed, log0)
        ELSE
            LET doc == parsed.value
                namespace == IF "None" \notin DOMAIN doc.nsmap THEN <<>>
                             ELSE <<"{">> \o doc.nsmap["None"] \o <<"}">>
                doc1 == remove_namespace(doc, namespace)
            IN  IF "finall" \notin ElementTreeAttributes
                THEN Step(IF table = EmptyDict THEN table
                          ELSE Pop(table, CHOOSE k \in DOMAIN table : TRUE),
                          Raise("AttributeError"), log0)
                ELSE CharLoop(FindCharDeclChar(doc1), 1, table, log0)

\* update_from_p5_file(filename) on table: the table it leaves, how the call
\* ends, the LOGGER calls it makes
update_from_p5_file(table, filename) ==
    LET log0 == <<[level |-> "info", what |-> "Read Cbeta P5 file",
                   filename |-> filename]>>
        parsed == etree_parse(filename)
    IN  IF parsed.kind = "raise"
        THEN IF parsed.exc = "IOError"
             THEN Step(table, parsed,
                       Append(log0, [level |-> "error", what |-> "open file error",
                                     filename |-> filename]))
             ELSE Step(table, parsed, log0)
        ELSE
            LET doc == parsed.value
                namespace == IF "None" \notin DOMAIN doc.nsmap THEN <<>>
                             ELSE <<"{">> \o doc.nsmap["None"] \o <<"}">>
                doc1 == remove_namespace(doc, namespace)
            IN  IF "finall" \notin ElementTreeAttributes
                THEN Step(table, Raise("AttributeError"), log0)
                ELSE CharLoop(FindCharDeclChar(doc1), 1, table, log0)

(* ------------------------ update_from_p5_folder ----------------------- *)
\* update_from_p5_folder(folder) on table, and its loop from the i-th entry
RECURSIVE update_from_p5_folder(_, _)
RECURSIVE FolderLoop(_, _, _, _, _)
update_from_p5_folder(table, folder) ==
    FolderLoop(folder, os_walk(folder), 1, table, <<>>)

FolderLoop(folder, entries, i, table, lg) ==
    IF i > Len(entries) THEN Step(table, ReturnNone, lg)
    ELSE
        LET file == entries[i]
            path == os_path_join(folder, file)
        IN  IF path.kind = "raise" THEN Step(table, path, lg)
            ELSE IF StartsWithDot(path.value)
            THEN FolderLoop(folder, entries, i + 1, table, lg)
            ELSE LET r == IF os_path_isdir(path.value)
                          THEN update_from_p5_folder(table, path.value)
                          ELSE update_from_p5_file(table, path.value)
                 IN  IF r.out.kind = "raise"
                     THEN Step(r.table, r.out, lg \o r.log)
                     ELSE FolderLoop(folder, entries, i + 1, r.table, lg \o r.log)

(* ------------------- the object: specification Spec ------------------- *)
NoCall == [op |-> "none", arg |-> <<>>]

Codes == Ids \cup {"nonexistent"}

\* __init__: missing_dict is the persisted table, zzs_code its reverse index.
\* The persisted JSON object is an input: any table of Tables, its keys in any
\* order.  (__init__ hands the open file to json.loads; the load is taken to
\* deliver the mapping the file stores, as the docstring of __init__ says.)
Init ==
    \E t \in Tables : \E keys \in KeyOrders(DOMAIN t) :
        /\ missing_dict = t
        /\ zzs_code = create_zzs_code_lookup(t, keys, 1, EmptyDict)
        /\ call = [op |-> "__init__", arg |-> keys]
        /\ outcome = ReturnNone
        /\ log = <<>>
        /\ prev = [call |-> NoCall, dict |-> t]

Get ==
    \E cb_code \in Codes :
        /\ call' = [op |-> "get", arg |-> cb_code]
        /\ prev' = [call |-> call, dict |-> missing_dict]
        /\ outcome' = get(missing_dict, cb_code)
        /\ log' = <<>>
        /\ UNCHANGED <<missing_dict, zzs_code>>

GetPhoneticNotation ==
    \E cb_code \in Codes :
        /\ call' = [op |-> "get_phonetic_notation", arg |-> cb_code]
        /\ prev' = [call |-> call, dict |-> missing_dict]
        /\ outcome' = get_phonetic_notation(missing_dict, cb_code)
        /\ log' = <<>>
        /\ UNCHANGED <<missing_dict, zzs_code>>

UpdateFromP5File ==
    \E filename \in FileNames :
        LET r == update_from_p5_file(missing_dict, filename)
        IN  /\ call' = [op |-> "update_from_p5_file", arg |-> filename]
            /\ missing_dict' = r.table
            /\ outcome' = r.out
            /\ log' = r.log
            /\ prev' = [call |-> call, dict |-> missing_dict]
            /\ UNCHANGED zzs_code

UpdateFromP5Folder ==
    \E folder \in Folders :
        LET r == update_from_p5_folder(missing_dict, folder)
        IN  /\ call' = [op |-> "update_from_p5_folder", arg |-> folder]
            /\ missing_dict' = r.table
            /\ outcome' = r.out
            /\ log' = r.log
            /\ prev' = [call |-> call, dict |-> missing_dict]
            /\ UNCHANGED zzs_code

Next ==
    \/ Get
    \/ GetPhoneticNotation
    \/ UpdateFromP5File
    \/ UpdateFromP5Folder

Spec == Init /\ [][Next]_vars

(* --------------- extract_char alone: specification SpecExtract -------- *)
SeqsUpTo(S, n) == UNION {[1..k -> S] : k \in 0..n}

PropChoices ==
    {<<"normalized form", "qu">>, <<"composition", "z1">>,
     <<"unknown property", "u1">>}

\* payloads over one decimal and one non-decimal hexadecimal digit
Payloads == SeqsUpTo({"2", "B"}, MaxHexLen)

MappingChoices ==
    {<<"unicode", Wrap(h)>> : h \in Payloads}
    \cup {<<"normal_unicode", Wrap(<<"7", "4", "A", "9">>)>>,
          <<"big5", Wrap(<<"F", "A">>)>>}

CharChoices ==
    [id : {"CB00006"},
     props : SeqsUpTo(PropChoices, MaxProps),
     mappings : SeqsUpTo(MappingChoices, MaxMappings)]

InitExtract ==
    \E c \in CharChoices :
        /\ call = [op |-> "char", arg |-> CharNode("", <<"id">>, c)]
        /\ outcome = NotCalled
        /\ log = <<>>
        /\ missing_dict = EmptyDict
        /\ zzs_code = EmptyDict
        /\ prev = [call |-> NoCall, dict |-> EmptyDict]

ExtractChar ==
    /\ call.op = "char"
    /\ LET r == extract_char(call.arg)
       IN  /\ call' = [op |-> "extract_char", arg |-> call.arg]
           /\ outcome' = r.out
           /\ log' = r.log
    /\ UNCHANGED <<missing_dict, zzs_code, prev>>

NextExtract == ExtractChar

SpecExtract == InitExtract /\ [][NextExtract]_vars

(* ------------ remove_namespace alone: specification SpecNormalize ----- *)
TagChoices ==
    {<<"char">>, QName("urn:test", "char"), QName("urn:other", "char")}

AttribChoices ==
    UNION {[S -> Ids] : S \in SUBSET {XmlId, <<"id">>}}

LeafChoices ==
    {Element(t, a, NoText, <<>>) : t \in TagChoices, a \in AttribChoices}

DocChoices ==
    {[nsmap |-> EmptyDict, root |-> Element(r.tag, r.attrib, NoText, ch)] :
        r \in LeafChoices, ch \in SeqsUpTo(LeafChoices, MaxChildren)}

\* the namespace argument: none, a URI, a URI already in braces
NamespaceChoices == {<<>>, <<"urn:test">>, <<"{", "urn:test", "}">>}

InitNormalize ==
    \E d \in DocChoices, ns \in NamespaceChoices :
        /\ call = [op |-> "doc", arg |-> [doc |-> d, namespace |-> ns]]
        /\ outcome = NotCalled
        /\ log = <<>>
        /\ missing_dict = EmptyDict
        /\ zzs_code = EmptyDict
        /\ prev = [call |-> NoCall, dict |-> EmptyDict]

RemoveNamespace ==
    /\ call.op = "doc"
    /\ call' = [op |-> "remove_namespace", arg |-> call.arg]
    /\ outcome' = Return(remove_namespace(call.arg.doc, call.arg.namespace))
    /\ UNCHANGED <<missing_dict, zzs_code, log, prev>>

NextNormalize == RemoveNamespace

SpecNormalize == InitNormalize /\ [][NextNormalize]_vars

(* ======================= properties: extract_char ===================== *)
HexDigits ==
    DecDigits \cup {"A", "B", "C", "D", "E", "F", "a", "b", "c", "d", "e", "f"}

HexDigitValue(c) ==
    CASE c \in DecDigits -> DecDigitValue(c)
      [] c \in {"A", "a"} -> 10 [] c \in {"B", "b"} -> 11
      [] c \in {"C", "c"} -> 12 [] c \in {"D", "d"} -> 13
      [] c \in {"E", "e"} -> 14 [] c \in {"F", "f"} -> 15

\* h read as a hexadecimal integer
RECURSIVE HexValue(_)
HexValue(h) ==
    IF h = <<>> THEN 0
    ELSE 16 * HexValue(SubSeq(h, 1, Len(h) - 1)) + HexDigitValue(h[Len(h)])

\* the text is a 2-symbol prefix, a hex digit string, a 1-symbol suffix
IsWrappedHex(text) ==
    /\ Len(text) >= 4
    /\ \A i \in 3..(Len(text) - 1) : text[i] \in HexDigits

HexPayload(text) == SubSeq(text, 3, Len(text) - 1)

UnicodeMappings(char) ==
    SelectSeq(FindAll(char, "mapping"), LAMBDA m : m.attrib[<<"type">>] = "unicode")

\* C2: extract_char on a char node whose (one) mapping of type unicode has a
\* text made of a 2-character prefix, a hex digit string H and a 1-character
\* suffix returns a record with unicode = H and unicode-char = the character
\* whose code point is H read as a hexadecimal integer.
C2_UnicodeCharIsHexCodePoint ==
    (call.op = "extract_char" /\ Len(UnicodeMappings(call.arg)) = 1
        /\ IsWrappedHex(UnicodeMappings(call.arg)[1].text))
    => LET h == HexPayload(UnicodeMappings(call.arg)[1].text)
       IN  /\ outcome.kind = "return"
           /\ "unicode" \in DOMAIN outcome.value
           /\ outcome.value["unicode"] = h
           /\ "unicode-char" \in DOMAIN outcome.value
           /\ outcome.value["unicode-char"] = [codepoint |-> HexValue(h)]

CanonicalFieldNames ==
    {"big5", "char_in_siddham_font", "zzs", "normal", "rjchar", "roman_cbeta",
     "roman"}

MappingFieldNames == {"normal_unicode", "unicode", "unicode-char"}

\* the keys the mapped properties and the retained mappings of char stand for
ContributedKeys(char) ==
    {FIELD_MAPPING[Find(p, "localName").text] :
        p \in {q \in {FindAll(char, "charProp")[i] :
                        i \in 1..Len(FindAll(char, "charProp"))} :
                 Find(q, "localName").text \in DOMAIN FIELD_MAPPING}}
    \cup {m.attrib[<<"type">>] :
            m \in {n \in {FindAll(char, "mapping")[i] :
                            i \in 1..Len(FindAll(char, "mapping"))} :
                     n.attrib[<<"type">>] \in {"normal_unicode", "unicode"}}}
    \cup (IF Len(UnicodeMappings(char)) > 0 THEN {"unicode-char"} ELSE {})

\* C3: every key of a record extract_char returns is a canonical field name or
\* one of normal_unicode, unicode, unicode-char, and is the key of a mapped
\* property or of a retained mapping of the node: an unmapped local name and a
\* mapping of another type contribute no key.
C3_KeysAreControlled ==
    (call.op = "extract_char" /\ outcome.kind = "return")
    => /\ DOMAIN outcome.value \subseteq CanonicalFieldNames \cup MappingFieldNames
       /\ DOMAIN outcome.value \subseteq ContributedKeys(call.arg)

HasProp(char, local_name) ==
    \E i \in 1..Len(FindAll(char, "charProp")) :
        Find(FindAll(char, "charProp")[i], "localName").text = local_name

HasMapping(char, type) ==
    \E i \in 1..Len(FindAll(char, "mapping")) :
        FindAll(char, "mapping")[i].attrib[<<"type">>] = type

\* a node with an unmapped property, a mapping of another type, a mapped
\* property and a unicode mapping, whose record has just the controlled keys
C3_Witness ==
    /\ call.op = "extract_char"
    /\ outcome.kind = "return"
    /\ HasProp(call.arg, "unknown property")
    /\ HasMapping(call.arg, "big5")
    /\ HasProp(call.arg, "normalized form")
    /\ HasMapping(call.arg, "unicode")
    /\ DOMAIN outcome.value = {"normal", "unicode", "unicode-char"}

(* ===================== properties: remove_namespace =================== *)
\* C6 for one node: before the call (b), after it (a), and below it
RECURSIVE NormalizedNode(_, _, _)
NormalizedNode(b, a, uri) ==
    /\ (Len(b.tag) = Len(uri) + 3
            /\ SubSeq(b.tag, 1, Len(uri) + 2) = <<"{">> \o uri \o <<"}">>)
       => a.tag = <<b.tag[Len(b.tag)]>>
    /\ \A name \in DOMAIN b.attrib :
        (Len(name) = 4 /\ name[1] = "{" /\ name[2] = XML_NAMESPACE /\ name[3] = "}")
        => /\ <<name[4]>> \in DOMAIN a.attrib
           /\ a.attrib[<<name[4]>>] = b.attrib[name]
           /\ name \notin DOMAIN a.attrib
    /\ Len(a.children) = Len(b.children)
    /\ \A i \in 1..Len(b.children) :
        NormalizedNode(b.children[i], a.children[i], uri)

DeclaredNamespace(doc) ==
    IF "None" \in DOMAIN doc.nsmap THEN doc.nsmap["None"] ELSE <<>>

\* the char nodes under the character-declarations block of a parseable file,
\* once normalized with the namespace the document declares
DeclaredChars(filename) ==
    LET doc == etree_parse(filename).value
    IN  FindCharDeclChar(remove_namespace(doc, DeclaredNamespace(doc)))

Parseable(filename) == etree_parse(filename).kind = "return"

\* the Table holds under the id of char the record extract_char returns for it
Inserted(table, char) ==
    LET e == extract_char(char).out
    IN  e.kind = "return"
        => /\ char.attrib[<<"id">>] \in DOMAIN table
           /\ table[char.attrib[<<"id">>]] = e.value

\* C1: after update_from_p5_file on a parseable document that declares a
\* default namespace, the Table maps the id of every char node under charDecl
\* to the record extract_char returns for it; the document of T01.xml
\* (CB00006, 'normalized form' = qu, unicode mapping 249B2) gives
\* {normal: qu, unicode: 249B2, unicode-char: chr(0x249B2)}.
C1_ScanInsertsEveryChar ==
    (call.op = "update_from_p5_file" /\ Parseable(call.arg)
        /\ "None" \in DOMAIN etree_parse(call.arg).value.nsmap)
    => /\ \A i \in 1..Len(DeclaredChars(call.arg)) :
            Inserted(missing_dict, DeclaredChars(call.arg)[i])
       /\ call.arg = <<"p5", "T01.xml">>
            => /\ "CB00006" \in DOMAIN missing_dict
               /\ missing_dict["CB00006"] =
                    Put(Put(Put(EmptyDict, "normal", "qu"),
                            "unicode", <<"2", "4", "9", "B", "2">>),
                        "unicode-char", [codepoint |-> 149938])

DeclaredIds(filename) ==
    {DeclaredChars(filename)[i].attrib[<<"id">>] :
        i \in 1..Len(DeclaredChars(filename))}

\* C4: update_from_p5_file on document A and then on document B that declares
\* an identifier of A again leaves, for that identifier, exactly the record
\* extracted from B.
C4_OverwriteReplacesRecord ==
    (call.op = "update_from_p5_file" /\ prev.call.op = "update_from_p5_file"
        /\ Parseable(call.arg) /\ Parseable(prev.call.arg)
        /\ call.arg # prev.call.arg)
    => \A i \in 1..Len(DeclaredChars(call.arg)) :
        DeclaredChars(call.arg)[i].attrib[<<"id">>] \in DeclaredIds(prev.call.arg)
        => Inserted(missing_dict, DeclaredChars(call.arg)[i])

SameCallAsBefore == prev.call.op = call.op /\ prev.call.arg = call.arg

IsHiddenName(name) == name \in {".", "..", ".hidden"}

\* the non-hidden files under folder
FilesUnder(folder) ==
    UNION {{Append(os_walk(folder)[i].dirpath, os_walk(folder)[i].filenames[j]) :
                j \in {k \in 1..Len(os_walk(folder)[i].filenames) :
                         ~IsHiddenName(os_walk(folder)[i].filenames[k])}} :
            i \in 1..Len(os_walk(folder))}

ScanLogged(filename) ==
    \E i \in 1..Len(log) :
        /\ log[i].what = "Read Cbeta P5 file"
        /\ log[i].filename = filename

\* C7: update_from_p5_folder on a directory (none of the model's directories
\* holds two documents that declare one identifier) returns after scanning
\* every non-hidden file under it through update_from_p5_file, and the Table
\* holds the record of every char node of those files, whatever the order.
C7_TreeScansEveryFile ==
    (call.op = "update_from_p5_folder" /\ os_walk(call.arg) # <<>>)
    => /\ outcome.kind = "return_none"
       /\ \A f \in FilesUnder(call.arg) :
            /\ ScanLogged(f)
            /\ Parseable(f)
                => \A i \in 1..Len(DeclaredChars(f)) :
                        Inserted(missing_dict, DeclaredChars(f)[i])

ErrorLogged == \E i \in 1..Len(log) : log[i].level = "error"

Reported(char) ==
    \A i \in 1..Len(extract_char(char).log) :
        \E j \in 1..Len(log) : log[j] = extract_char(char).log[i]

\* C9: update_from_p5_file on a parseable document whose char nodes have at
\* most recoverable issues (an unmapped property, a mapping of another type)
\* raises no error, reports each unmapped property to the diagnostics sink and
\* inserts the record of every char node into the Table.
C9_RecoverableIssuesAbsorbed ==
    (call.op = "update_from_p5_file" /\ Parseable(call.arg)
        /\ \A i \in 1..Len(DeclaredChars(call.arg)) :
            extract_char(DeclaredChars(call.arg)[i]).out.kind = "return")
    => /\ outcome.kind # "raise"
       /\ \A i \in 1..Len(DeclaredChars(call.arg)) :
            /\ Reported(DeclaredChars(call.arg)[i])
            /\ Inserted(missing_dict, DeclaredChars(call.arg)[i])

\* the reverse index maps the zzs of every record of the Table that has one to
\* an identifier whose record has that zzs
IndexCoversTable ==
    \A id \in DOMAIN missing_dict :
        "zzs" \in DOMAIN missing_dict[id]
        => /\ missing_dict[id]["zzs"] \in DOMAIN zzs_code
           /\ zzs_code[missing_dict[id]["zzs"]] \in DOMAIN missing_dict
           /\ "zzs" \in DOMAIN missing_dict[zzs_code[missing_dict[id]["zzs"]]]
           /\ missing_dict[zzs_code[missing_dict[id]["zzs"]]]["zzs"]
                = missing_dict[id]["zzs"]

====
